---- MODULE Spec2Model ----
(***************************************************************************)
(* Model of opinon1/scantron_inventory: the inventory store (DB_Type with   *)
(* inc and updateName), the HTTP handlers around it, the decode pipeline    *)
(* DecodeDocument, and the bubble analyser utils.ProcessHorizontalSections. *)
(*                                                                         *)
(* Three specifications share the variables:                               *)
(*   SpecSections  ProcessHorizontalSections applied to bounded regions     *)
(*   SpecDecode    one HandleUpload / DecodeDocument run, row by row        *)
(*   Spec          concurrent requests on the shared store                  *)
(***************************************************************************)
EXTENDS Integers, Sequences, FiniteSets, TLC

(***************************************************************************)
(* Bounds of the model.                                                    *)
(***************************************************************************)
MaxSections == 3
MaxWidth == 5
MaxDark == 2
MaxMarkedRows == 2
MaxUploadRows == 2
MaxRequests == 2

(***************************************************************************)
(* Program constants.                                                      *)
(***************************************************************************)
NumRows == 21
NumDigitSections == 10

(***************************************************************************)
(* State.                                                                  *)
(***************************************************************************)
VARIABLES
    gray,         \* SpecSections: the grayscale region handed to the analyser
    numSections,  \* SpecSections: its numSections argument
    secResult,    \* SpecSections: << >>, or <<r>> once the analyser returned r
    items,        \* db.items
    img,          \* SpecDecode: the Mat gocv.IMRead returned
    upc,          \* SpecDecode: where the upload request is
    i,            \* SpecDecode: the loop variable of DecodeDocument
    response,     \* SpecDecode: what HandleUpload wrote to the client
    printed,      \* SpecDecode: whether "Error reading image" was printed
    row,          \* SpecDecode: the last iteration: its inputs, what it did, the store before it
    items0,       \* SpecDecode: the store when DecodeDocument was called
    blankRows,    \* SpecDecode: how many iterations so far were blank rows
    marked,       \* SpecDecode: how many iterations so far updated the store
    mu,           \* db.mu: 0 when free, else the goroutine holding it
    pc,           \* Spec: where each goroutine is
    req,          \* Spec: the arguments of each goroutine's store call
    lookup,       \* Spec: each goroutine's prod, exists of line 35 / 47
    nrows,        \* Spec: the rows each upload has applied so far
    nreq,         \* Spec: the requests accepted so far
    issued,       \* Spec: per key, its value at the start plus the deltas of the
                  \* inc calls made since
    reads         \* Spec: at each read of db.items so far, was db.mu held

secVars == <<gray, numSections, secResult>>
decVars == <<img, upc, i, response, printed, row, items0, blankRows, marked>>
conVars == <<mu, pc, req, lookup, nrows, nreq, issued, reads>>
vars == <<gray, numSections, secResult, items,
          img, upc, i, response, printed, row, items0, blankRows, marked,
          mu, pc, req, lookup, nrows, nreq, issued, reads>>

(***************************************************************************)
(* float32 arithmetic.  A float32 value is [m, s], standing for m / 2^s     *)
(* with m < 2^24: the 24-bit significand and the binary scale.  Division    *)
(* and multiplication round to nearest, ties to even, as IEEE 754 does;     *)
(* the conversion to int truncates.                                        *)
(***************************************************************************)
RECURSIVE Pow2(_)
Pow2(k) == IF k = 0 THEN 1 ELSE 2 * Pow2(k - 1)

RECURSIVE F32Scale(_, _, _)
F32Scale(a, b, s) ==
    IF a * Pow2(s) >= b * Pow2(23) THEN s ELSE F32Scale(a, b, s + 1)

\* float32(a) / float32(b), for integers 0 <= a, 0 < b, a / b < 2^24
F32Div(a, b) ==
    IF a = 0 THEN [m |-> 0, s |-> 0]
    ELSE LET s == F32Scale(a, b, 0)
             q == (a * Pow2(s)) \div b
             r == (a * Pow2(s)) % b
         IN  [m |-> IF 2 * r > b \/ (2 * r = b /\ q % 2 = 1) THEN q + 1 ELSE q,
              s |-> s]

RECURSIVE F32Excess(_, _)
F32Excess(p, k) == IF p \div Pow2(k) < Pow2(24) THEN k ELSE F32Excess(p, k + 1)

\* float32(n) * f, for a small integer n >= 0
F32MulInt(n, f) ==
    LET p == n * f.m
        k == F32Excess(p, 0)
    IN  IF k = 0 THEN [m |-> p, s |-> f.s]
        ELSE LET q == p \div Pow2(k)
                 r == p % Pow2(k)
                 half == Pow2(k - 1)
             IN  [m |-> IF r > half \/ (r = half /\ q % 2 = 1) THEN q + 1 ELSE q,
                  s |-> f.s - k]

\* int(f)
F32ToInt(f) == f.m \div Pow2(f.s)


(***************************************************************************)
(* A grayscale region (gocv.Mat) as the analyser sees it: cols, rows, and   *)
(* runs, a left-to-right sequence of [len, dark]: len adjacent columns      *)
(* holding dark pixels each (pixels the threshold of line 56 turns white).  *)
(* The empty Mat has cols = rows = 0 and no runs.                          *)
(***************************************************************************)
Max(a, b) == IF a >= b THEN a ELSE b
Min(a, b) == IF a <= b THEN a ELSE b

EmptyMat == [cols |-> 0, rows |-> 0, runs |-> << >>]

\* gocv.CountNonZero of the thresholded columns [xs, xe) of the region
RECURSIVE CountNonZero(_, _, _, _)
CountNonZero(runs, x0, xs, xe) ==
    IF runs = << >> THEN 0
    ELSE LET r == Head(runs)
             overlap == Max(0, Min(xe, x0 + r.len) - Max(xs, x0))
         IN  overlap * r.dark + CountNonZero(Tail(runs), x0 + r.len, xs, xe)

\* lines 37, 45-51: the ROI of section idx
SectionROI(width, nSections, idx) ==
    LET sectionWidth == F32Div(width, nSections)
        xStart == F32ToInt(F32MulInt(idx, sectionWidth))
    IN  [xStart |-> xStart,
         xEnd |-> IF idx = nSections - 1 THEN width
                  ELSE xStart + F32ToInt(sectionWidth)]

\* lines 66-73: the scan for the maximum, from position idx on
RECURSIVE MaxScanGE(_, _, _, _)
MaxScanGE(darkCounts, idx, maxCount, maxIndex) ==
    IF idx >= Len(darkCounts) THEN [maxCount |-> maxCount, maxIndex |-> maxIndex]
    ELSE IF darkCounts[idx + 1] >= maxCount
         THEN MaxScanGE(darkCounts, idx + 1, darkCounts[idx + 1], idx)
         ELSE MaxScanGE(darkCounts, idx + 1, maxCount, maxIndex)

RECURSIVE MaxScan(_, _, _, _)
MaxScan(darkCounts, idx, maxCount, maxIndex) ==
    IF idx >= Len(darkCounts) THEN [maxCount |-> maxCount, maxIndex |-> maxIndex]
    ELSE IF darkCounts[idx + 1] > maxCount
         THEN MaxScan(darkCounts, idx + 1, darkCounts[idx + 1], idx)
         ELSE MaxScan(darkCounts, idx + 1, maxCount, maxIndex)

RECURSIVE SumSeq(_)
SumSeq(s) == IF s = << >> THEN 0 ELSE Head(s) + SumSeq(Tail(s))

\* lines 75-84 with the index counted from 1
StandoutOneBased(nSections, totalCount, maxCount, maxIndex) ==
    IF totalCount = 0
    THEN IF maxCount > 0 THEN maxIndex + 1 ELSE 0
    ELSE IF 2 * nSections * maxCount > 3 * totalCount THEN maxIndex + 1 ELSE 0

\* lines 75-84.  avg = totalCount / nSections in float64; with the counts
\* of this model (below 2^20) float64(maxCount) > 1.5 * avg decides exactly
\* as 2 * nSections * maxCount > 3 * totalCount does.
Standout(nSections, totalCount, maxCount, maxIndex) ==
    IF totalCount = 0
    THEN IF maxCount > 0 THEN maxIndex ELSE 0
    ELSE IF 2 * nSections * maxCount > 3 * totalCount THEN maxIndex ELSE 0

\* lines 43-51: the ROIs of sections idx, idx + 1, ...
RECURSIVE SectionROIs(_, _, _)
SectionROIs(width, nSections, idx) ==
    IF idx >= nSections THEN << >>
    ELSE <<SectionROI(width, nSections, idx)>> \o SectionROIs(width, nSections, idx + 1)

\* lines 52-59: the dark count of each ROI
RECURSIVE DarkCounts(_, _)
DarkCounts(runs, rois) ==
    IF rois = << >> THEN << >>
    ELSE <<CountNonZero(runs, 0, Head(rois).xStart, Head(rois).xEnd)>>
         \o DarkCounts(runs, Tail(rois))

\* lines 65-102, from the counts on
Decide(nSections, rois, darkCounts, mx) ==
    [err |-> FALSE,
     standout |-> Standout(nSections, SumSeq(darkCounts), mx.maxCount, mx.maxIndex),
     rois |-> rois, darkCounts |-> darkCounts,
     maxCount |-> mx.maxCount, maxIndex |-> mx.maxIndex]

CountAndDecide(nSections, rois, darkCounts) ==
    Decide(nSections, rois, darkCounts, MaxScan(darkCounts, 0, 0, -1))

\* utils.ProcessHorizontalSections on the grayscale of img.Region(rect)
ProcessHorizontalSections(g, nSections) ==
    IF nSections <= 0 \/ g.cols = 0 \/ g.rows = 0
    THEN [err |-> TRUE, standout |-> 0, rois |-> << >>, darkCounts |-> << >>,
          maxCount |-> 0, maxIndex |-> -1]
    ELSE LET rois == SectionROIs(g.cols, nSections, 0)
         IN  CountAndDecide(nSections, rois, DarkCounts(g.runs, rois))

(***************************************************************************)
(* The store: db.items, a map from key to Product [Name, Value].            *)
(***************************************************************************)
Put(m, k, v) == [x \in DOMAIN m \cup {k} |-> IF x = k THEN v ELSE m[x]]

EmptyStore == [x \in {} |-> [Name |-> "", Value |-> 0]]

\* line 35 (and 47): prod, exists := db.items[key]
Lookup(m, key) ==
    IF key \in DOMAIN m THEN [exists |-> TRUE, prod |-> m[key]]
    ELSE [exists |-> FALSE, prod |-> [Name |-> "", Value |-> 0]]

\* lines 36-39, with the result rd of line 35
IncStoreResetName(m, key, amount, rd) ==
    Put(m, key, [Name |-> key, Value |-> rd.prod.Value + amount])

IncStore(m, key, amount, rd) ==
    IF rd.exists
    THEN Put(m, key, [Name |-> rd.prod.Name, Value |-> rd.prod.Value + amount])
    ELSE Put(m, key, [Name |-> key, Value |-> amount])

\* lines 48-49, with the result rd of line 47
UpdateNameStore(m, key, newName, rd) ==
    IF rd.exists
    THEN Put(m, key, [Name |-> newName, Value |-> rd.prod.Value])
    ELSE m

\* db.items[key].Value, the zero value for a key not in the map
Value(m, key) == Lookup(m, key).prod.Value

\* DB_Type.inc run without interruption
inc(m, key, amount) == IncStore(m, key, amount, Lookup(m, key))

\* DB_Type.updateName run without interruption
updateName(m, key, newName) == UpdateNameStore(m, key, newName, Lookup(m, key))

(***************************************************************************)
(* The pixels of the digit regions of the form.                             *)
(***************************************************************************)
\* a digit region of the form, 35 rows high: every column holds noise dark
\* pixels, and the columns of the filled bubbles of the digits in marks
\* (18 columns from column 41 * d + 12 on) hold 20 more
RECURSIVE BubbleRuns(_, _, _, _)
BubbleRuns(width, x, marks, noise) ==
    IF marks = << >> THEN <<[len |-> width - x, dark |-> noise]>>
    ELSE LET from == 41 * Head(marks) + 12
         IN  <<[len |-> from - x, dark |-> noise], [len |-> 18, dark |-> noise + 20]>>
             \o BubbleRuns(width, from + 18, Tail(marks), noise)

BubbleRegion(width, marks, noise) ==
    [cols |-> width, rows |-> 35, runs |-> BubbleRuns(width, 0, marks, noise)]

SampleMarks == {<< >>, <<0>>, <<2>>, <<5>>, <<9>>, <<2, 5>>}

DigitRegions(width) ==
    {BubbleRegion(width, mk, nz) : mk \in SampleMarks, nz \in 0..1}

TensSamples == {BubbleRegion(417, mk, 0) : mk \in {<< >>, <<0>>, <<2>>}}
                  \cup {BubbleRegion(417, << >>, 1)}

OnesSamples == {BubbleRegion(415, mk, 0) : mk \in {<< >>, <<5>>, <<2, 5>>}}
                  \cup {BubbleRegion(415, <<5>>, 1)}

\* ProcessHorizontalSections(_, 10) on the regions a row can hand it,
\* evaluated once
DigitAnalyses ==
    {[mat |-> m, result |-> ProcessHorizontalSections(m, NumDigitSections)] :
        m \in TensSamples \cup OnesSamples \cup {EmptyMat}}

AnalyzeDigits(m) == (CHOOSE e \in DigitAnalyses : e.mat = m).result

(***************************************************************************)
(* DecodeDocument: one row of the form.                                    *)
(***************************************************************************)
\* line 191: offset := int(float32(idx) * 83.47)
RECURSIVE RowOffsetsFrom(_)
RowOffsetsFrom(idx) ==
    IF idx >= NumRows THEN << >>
    ELSE <<F32ToInt(F32MulInt(idx, F32Div(8347, 100)))>> \o RowOffsetsFrom(idx + 1)

\* the offsets of rows 0..20, evaluated once
RowOffsets == RowOffsetsFrom(0)

RowOffset(idx) == RowOffsets[idx + 1]

Rect(x0, y0, x1, y1) == [x0 |-> x0, y0 |-> y0, x1 |-> x1, y1 |-> y1]

KeyRect(idx) == Rect(450, 540 + RowOffset(idx), 515, 605 + RowOffset(idx))
TensRect(idx) == Rect(534, 541 + RowOffset(idx), 951, 576 + RowOffset(idx))
OnesRect(idx) == Rect(980, 541 + RowOffset(idx), 1395, 576 + RowOffset(idx))

InImage(im, r) ==
    /\ 0 <= r.x0 /\ r.x0 <= r.x1 /\ r.x1 <= im.cols
    /\ 0 <= r.y0 /\ r.y0 <= r.y1 /\ r.y1 <= im.rows

\* img.Region(rect).  The code checks no bounds; for a rect that is not
\* inside the image OpenCV raises an exception, which (by the gocv build)
\* either ends the process or leaves an empty Mat: oob is that outcome.
Region(im, r, pixels, oob) ==
    IF InImage(im, r) THEN [aborted |-> FALSE, mat |-> pixels]
    ELSE IF oob = "abort" THEN [aborted |-> TRUE, mat |-> EmptyMat]
    ELSE [aborted |-> FALSE, mat |-> EmptyMat]

\* what the key region shows: no symbol, or a symbol with its text
QRContents == {[found |-> FALSE, text |-> ""], [found |-> TRUE, text |-> ""],
               [found |-> TRUE, text |-> "WIDGET-1"]}

QRMat(qr) == [cols |-> 65, rows |-> 65, qr |-> qr]

\* utils.DecodeQRCodeZXing: the text, or an error
DecodeQRCodeZXing(mat) ==
    IF mat.cols = 0 \/ mat.rows = 0 THEN [text |-> "", err |-> TRUE]
    ELSE IF mat.qr.found THEN [text |-> mat.qr.text, err |-> FALSE]
    ELSE [text |-> "", err |-> TRUE]

\* utils.ProcessQRRegion: the decoder's error is dropped (qrText, _ :=)
ProcessQRRegion(mat) == [text |-> DecodeQRCodeZXing(mat).text, err |-> FALSE]

\* lines 225-228 with the guard dropped
ApplyCountUnguarded(m, key, count) == inc(m, key, count)

\* lines 225-228
ApplyCount(m, key, count) == IF count # 0 THEN inc(m, key, count) ELSE m

NoDigits == [err |-> FALSE, standout |-> 0, rois |-> << >>, darkCounts |-> << >>,
             maxCount |-> 0, maxIndex |-> -1]

\* lines 191-228: what one iteration does with the pixels of its regions.
\* kind: "abort" (the process ended in img.Region), "skip" (continue), or
\* "count" (the row reached line 222).
DecodeRow(im, idx, qr, tensPix, onesPix, oob) ==
    LET keySub == Region(im, KeyRect(idx), QRMat(qr), oob)
        key == ProcessQRRegion(keySub.mat)
        tensSub == Region(im, TensRect(idx), tensPix, oob)
        tens == AnalyzeDigits(tensSub.mat)
        onesSub == Region(im, OnesRect(idx), onesPix, oob)
        ones == AnalyzeDigits(onesSub.mat)
        out(kind, k, t, o) == [kind |-> kind, key |-> k, tens |-> t, ones |-> o]
    IN  IF keySub.aborted THEN out("abort", "", NoDigits, NoDigits)
        ELSE IF key.err \/ key.text = "" THEN out("skip", key.text, NoDigits, NoDigits)
        ELSE IF tensSub.aborted THEN out("abort", key.text, NoDigits, NoDigits)
        ELSE IF tens.err THEN out("skip", key.text, tens, NoDigits)
        ELSE IF onesSub.aborted THEN out("abort", key.text, tens, NoDigits)
        ELSE IF ones.err THEN out("skip", key.text, tens, ones)
        ELSE out("count", key.text, tens, ones)


(***************************************************************************)
(* Inputs of an upload.                                                    *)
(***************************************************************************)
\* what gocv.IMRead returns: an empty Mat (the file is missing or is no
\* image), a full page, a page too narrow for the ones regions, a page too
\* short for the rows from the tenth on
Images == {[empty |-> TRUE, cols |-> 0, rows |-> 0],
           [empty |-> FALSE, cols |-> 1700, rows |-> 2338],
           [empty |-> FALSE, cols |-> 1000, rows |-> 2338],
           [empty |-> FALSE, cols |-> 1700, rows |-> 1300]}

\* the store a request may find: empty, or holding entries of earlier
\* uploads, one of them renamed
InitialStores ==
    {EmptyStore,
     updateName(inc(inc(EmptyStore, "K2", 3), "WIDGET-1", 7), "WIDGET-1", "Blue Widget")}

NoRow == [i |-> -1, qr |-> [found |-> FALSE, text |-> ""], kind |-> "none", key |-> "",
          tens |-> NoDigits, ones |-> NoDigits, before |-> EmptyStore]

DecodeIdle ==
    /\ img = [empty |-> TRUE, cols |-> 0, rows |-> 0]
    /\ upc = "idle" /\ i = 0 /\ response = "" /\ printed = FALSE
    /\ row = NoRow /\ items0 = EmptyStore /\ blankRows = 0 /\ marked = 0


(***************************************************************************)
(* The goroutines serving requests, and the store as main() leaves it.      *)
(***************************************************************************)
\* net/http serves each request on a goroutine of its own: goroutine p
\* serves the p-th request accepted
Procs == 1..MaxRequests
Keys == {"WIDGET-1", "K2"}
Names == {"Blue Widget"}
RowCounts == {3}

NoReq == [kind |-> "none", key |-> "", amount |-> 0, name |-> ""]
NoRd == [exists |-> FALSE, prod |-> [Name |-> "", Value |-> 0]]

StoreIdle ==
    /\ mu = 0
    /\ pc = [p \in Procs |-> "new"]
    /\ req = [p \in Procs |-> NoReq]
    /\ lookup = [p \in Procs |-> NoRd]
    /\ nrows = [p \in Procs |-> 0]
    /\ nreq = 0
    /\ reads = {}


\* every region of up to MaxWidth columns and MaxDark rows
SmallRegions ==
    UNION {{[cols |-> w, rows |-> MaxDark,
             runs |-> [c \in 1..w |-> [len |-> 1, dark |-> f[c]]]] :
                f \in [1..w -> 0..MaxDark]} : w \in 1..MaxWidth}

(***************************************************************************)
(* SpecSections: ProcessHorizontalSections as a function of its input.      *)
(***************************************************************************)
SectionsIdle == gray = EmptyMat /\ numSections = 0 /\ secResult = << >>

InitSections ==
    /\ secResult = << >>
    /\ items = EmptyStore
    /\ DecodeIdle
    /\ StoreIdle
    /\ issued = [k \in Keys |-> 0]
    /\ \/ /\ numSections \in 1..MaxSections
          /\ gray \in {g \in SmallRegions : g.cols >= numSections}
       \/ /\ numSections = NumDigitSections
          /\ gray \in DigitRegions(417) \cup DigitRegions(415)

Analyze ==
    /\ secResult = << >>
    /\ secResult' = <<ProcessHorizontalSections(gray, numSections)>>
    /\ UNCHANGED <<gray, numSections, items, decVars, conVars>>

NextSections == Analyze

SpecSections == InitSections /\ [][NextSections]_vars


(***************************************************************************)
(* SpecDecode: one upload request, HandleUpload calling DecodeDocument.     *)
(***************************************************************************)
InitDecode ==
    /\ SectionsIdle
    /\ StoreIdle
    /\ issued = [k \in Keys |-> 0]
    /\ items \in InitialStores
    /\ img \in Images
    /\ upc = "upload" /\ i = 0 /\ response = "" /\ printed = FALSE
    /\ row = NoRow /\ items0 = items /\ blankRows = 0 /\ marked = 0

\* the count of a row that reached line 222
RowCount(out) == out.tens.standout * 10 + out.ones.standout

\* a blank row: no decodable QR text, an empty key, a failed bubble
\* analysis, or a count of 0
BlankRow(r) ==
    \/ ~r.qr.found
    \/ r.qr.text = ""
    \/ r.tens.err \/ r.ones.err
    \/ r.kind = "count" /\ RowCount(r) = 0

\* HandleUpload, lines 95-126: the checks before DecodeDocument is called
HandleUploadEntry ==
    /\ upc = "upload"
    /\ \E fault \in {"none", "method", "form", "file", "temp", "copy"} :
          /\ response' = CASE fault = "method" -> "405 Invalid method"
                           [] fault = "form" -> "400 Error parsing form"
                           [] fault = "file" -> "400 Error retrieving the file"
                           [] fault = "temp" -> "500 Cannot create temporary file"
                           [] fault = "copy" -> "500 Error saving file"
                           [] OTHER -> response
          /\ upc' = IF fault = "none" THEN "imread" ELSE "done"
    /\ UNCHANGED <<secVars, conVars, items, img, i, printed, row, items0, blankRows, marked>>

\* DecodeDocument, lines 182-187
IMRead ==
    /\ upc = "imread"
    /\ items0' = items
    /\ IF img.empty
       THEN printed' = TRUE /\ upc' = "redirect"
       ELSE printed' = printed /\ upc' = "row"
    /\ UNCHANGED <<secVars, conVars, items, img, i, response, row, blankRows, marked>>

\* what an iteration that did out leaves behind
RowEffect(qr, out) ==
    LET r == [i |-> i, qr |-> qr, kind |-> out.kind, key |-> out.key,
              tens |-> out.tens, ones |-> out.ones, before |-> items]
        updates == out.kind = "count" /\ RowCount(out) # 0
    IN  /\ updates => marked < MaxMarkedRows
        /\ row' = r
        /\ items' = IF out.kind = "count"
                    THEN ApplyCount(items, out.key, RowCount(out))
                    ELSE items
        /\ upc' = IF out.kind = "abort" THEN "aborted" ELSE "row"
        /\ i' = IF out.kind = "abort" THEN i ELSE i + 1
        /\ blankRows' = IF out.kind # "abort" /\ BlankRow(r)
                        THEN blankRows + 1 ELSE blankRows
        /\ marked' = IF updates THEN marked + 1 ELSE marked

\* DecodeDocument, lines 190-230: one iteration of the loop
DecodeRowStep ==
    /\ upc = "row"
    /\ i < NumRows
    /\ \E qr \in QRContents, tensPix \in TensSamples, onesPix \in OnesSamples,
          oob \in {"abort", "empty"} :
          RowEffect(qr, DecodeRow(img, i, qr, tensPix, onesPix, oob))
    /\ UNCHANGED <<secVars, conVars, img, response, printed, items0>>

\* DecodeDocument, line 232, and the return
IMWrite ==
    /\ upc = "row"
    /\ i = NumRows
    /\ upc' = "redirect"
    /\ UNCHANGED <<secVars, conVars, items, img, i, response, printed, row, items0, blankRows,
                   marked>>

\* HandleUpload, line 132
Redirect ==
    /\ upc = "redirect"
    /\ response' = "303 /dashboard"
    /\ upc' = "done"
    /\ UNCHANGED <<secVars, conVars, items, img, i, printed, row, items0, blankRows, marked>>

NextDecode ==
    \/ HandleUploadEntry
    \/ IMRead
    \/ DecodeRowStep
    \/ IMWrite
    \/ Redirect

SpecDecode == InitDecode /\ [][NextDecode]_vars


(***************************************************************************)
(* Spec: requests served concurrently, one goroutine each, on the shared    *)
(* store.  An upload is DecodeDocument on a loaded image: its blank rows    *)
(* do not touch the store, each other row calls db.inc(key, count) and      *)
(* then reads db.items[key] for the log line.                              *)
(***************************************************************************)
Init ==
    /\ SectionsIdle
    /\ DecodeIdle
    /\ StoreIdle
    /\ items \in InitialStores
    /\ issued = [k \in Keys |-> Value(items, k)]

\* sync.Mutex.Lock returns only when no goroutine holds the mutex
CanLockAlways(m) == TRUE

CanLock(m) == m = 0

Goto(p, label) == pc' = [pc EXCEPT ![p] = label]

\* HandleUpdateInventory, lines 148-161, up to the call of db.inc
HandleUpdateInventory(p) ==
    /\ pc[p] = "new" /\ nreq = p - 1
    /\ nreq' = nreq + 1
    /\ \E method \in {"GET", "POST"}, key \in Keys, action \in {"inc", "dec"} :
          IF method # "POST"
          THEN Goto(p, "done") /\ UNCHANGED <<req, issued>>
          ELSE LET delta == IF action = "dec" THEN -1 ELSE 1
               IN  /\ req' = [req EXCEPT ![p] = [kind |-> "update", key |-> key,
                                                 amount |-> delta, name |-> ""]]
                   /\ issued' = [issued EXCEPT ![key] = @ + delta]
                   /\ Goto(p, "inc_lock")
    /\ UNCHANGED <<secVars, decVars, items, mu, lookup, nrows, reads>>

\* HandleUpdateName, lines 166-173, up to the call of db.updateName
HandleUpdateName(p) ==
    /\ pc[p] = "new" /\ nreq = p - 1
    /\ nreq' = nreq + 1
    /\ \E method \in {"GET", "POST"}, key \in Keys, newName \in Names :
          IF method # "POST"
          THEN Goto(p, "done") /\ UNCHANGED req
          ELSE /\ req' = [req EXCEPT ![p] = [kind |-> "updateName", key |-> key,
                                             amount |-> 0, name |-> newName]]
               /\ Goto(p, "un_lock")
    /\ UNCHANGED <<secVars, decVars, items, mu, lookup, nrows, issued, reads>>

\* HandleUpload and DecodeDocument up to the loop, for a loaded image
HandleUpload(p) ==
    /\ pc[p] = "new" /\ nreq = p - 1
    /\ nreq' = nreq + 1
    /\ nrows' = [nrows EXCEPT ![p] = 0]
    /\ Goto(p, "row")
    /\ UNCHANGED <<secVars, decVars, items, mu, req, lookup, issued, reads>>

\* DecodeDocument, lines 190-226: the blank rows up to the next row with a
\* key and a count, and the call of db.inc for it; or the rest of the loop
DecodeNextRow(p) ==
    /\ pc[p] = "row"
    /\ \/ /\ nrows[p] < MaxUploadRows
          /\ \E key \in Keys, count \in RowCounts :
                /\ req' = [req EXCEPT ![p] = [kind |-> "upload", key |-> key,
                                              amount |-> count, name |-> ""]]
                /\ issued' = [issued EXCEPT ![key] = @ + count]
          /\ nrows' = [nrows EXCEPT ![p] = @ + 1]
          /\ Goto(p, "inc_lock")
       \/ /\ Goto(p, "done")
          /\ UNCHANGED <<req, issued, nrows>>
    /\ UNCHANGED <<secVars, decVars, items, mu, lookup, nreq, reads>>

\* DB_Type.inc, line 33
IncLock(p) ==
    /\ pc[p] = "inc_lock"
    /\ CanLock(mu)
    /\ mu' = p
    /\ Goto(p, "inc_read")
    /\ UNCHANGED <<secVars, decVars, items, req, lookup, nrows, nreq, issued, reads>>

\* DB_Type.inc, line 35
IncRead(p) ==
    /\ pc[p] = "inc_read"
    /\ lookup' = [lookup EXCEPT ![p] = Lookup(items, req[p].key)]
    /\ Goto(p, "inc_write")
    /\ UNCHANGED <<secVars, decVars, items, mu, req, nrows, nreq, issued, reads>>

\* DB_Type.inc, lines 36-39
IncWrite(p) ==
    /\ pc[p] = "inc_write"
    /\ items' = IncStore(items, req[p].key, req[p].amount, lookup[p])
    /\ Goto(p, "inc_unlock")
    /\ UNCHANGED <<secVars, decVars, mu, req, lookup, nrows, nreq, issued, reads>>

\* DB_Type.inc, line 34 (the deferred Unlock) and the return
IncUnlock(p) ==
    /\ pc[p] = "inc_unlock"
    /\ mu' = 0
    /\ Goto(p, IF req[p].kind = "upload" THEN "log" ELSE "done")
    /\ lookup' = [lookup EXCEPT ![p] = NoRd]
    /\ req' = [req EXCEPT ![p] = IF @.kind = "upload" THEN @ ELSE NoReq]
    /\ UNCHANGED <<secVars, decVars, items, nrows, nreq, issued, reads>>

\* DecodeDocument, line 227: db.items[key] read for the log line
LogRead(p) ==
    /\ pc[p] = "log"
    /\ reads' = reads \cup {mu # 0}
    /\ req' = [req EXCEPT ![p] = NoReq]
    /\ Goto(p, "row")
    /\ UNCHANGED <<secVars, decVars, items, mu, lookup, nrows, nreq, issued>>

\* DB_Type.updateName, line 45
UpdateNameLock(p) ==
    /\ pc[p] = "un_lock"
    /\ CanLock(mu)
    /\ mu' = p
    /\ Goto(p, "un_read")
    /\ UNCHANGED <<secVars, decVars, items, req, lookup, nrows, nreq, issued, reads>>

\* DB_Type.updateName, line 47
UpdateNameRead(p) ==
    /\ pc[p] = "un_read"
    /\ lookup' = [lookup EXCEPT ![p] = Lookup(items, req[p].key)]
    /\ Goto(p, "un_write")
    /\ UNCHANGED <<secVars, decVars, items, mu, req, nrows, nreq, issued, reads>>

\* DB_Type.updateName, lines 48-49
UpdateNameWrite(p) ==
    /\ pc[p] = "un_write"
    /\ items' = UpdateNameStore(items, req[p].key, req[p].name, lookup[p])
    /\ Goto(p, "un_unlock")
    /\ UNCHANGED <<secVars, decVars, mu, req, lookup, nrows, nreq, issued, reads>>

\* DB_Type.updateName, line 46 (the deferred Unlock) and the return
UpdateNameUnlock(p) ==
    /\ pc[p] = "un_unlock"
    /\ mu' = 0
    /\ Goto(p, "done")
    /\ lookup' = [lookup EXCEPT ![p] = NoRd]
    /\ req' = [req EXCEPT ![p] = NoReq]
    /\ UNCHANGED <<secVars, decVars, items, nrows, nreq, issued, reads>>

\* HandleDashboard, lines 137-141: data.Inventory refers to db.items itself
HandleDashboard(p) ==
    /\ pc[p] = "new" /\ nreq = p - 1
    /\ nreq' = nreq + 1
    /\ Goto(p, "render")
    /\ UNCHANGED <<secVars, decVars, items, mu, req, lookup, nrows, issued, reads>>

\* HandleDashboard, line 142: the template ranges over db.items
RenderDashboard(p) ==
    /\ pc[p] = "render"
    /\ reads' = reads \cup {mu # 0}
    /\ Goto(p, "done")
    /\ UNCHANGED <<secVars, decVars, items, mu, req, lookup, nrows, nreq, issued>>

Next ==
    \E p \in Procs :
        \/ HandleUpdateInventory(p)
        \/ HandleUpdateName(p)
        \/ HandleUpload(p)
        \/ DecodeNextRow(p)
        \/ IncLock(p)
        \/ IncRead(p)
        \/ IncWrite(p)
        \/ IncUnlock(p)
        \/ LogRead(p)
        \/ UpdateNameLock(p)
        \/ UpdateNameRead(p)
        \/ UpdateNameWrite(p)
        \/ UpdateNameUnlock(p)
        \/ HandleDashboard(p)
        \/ RenderDashboard(p)

Spec == Init /\ [][Next]_vars


(***************************************************************************)
(* Claims about ProcessHorizontalSections (SpecSections).                   *)
(***************************************************************************)
Analyzed == secResult # << >> /\ ~secResult[1].err

\* the position (from 1) of the leftmost strip holding the maximum count
LeftmostMax(dc) ==
    CHOOSE k \in 1..Len(dc) :
        /\ \A j \in 1..Len(dc) : dc[j] <= dc[k]
        /\ \A j \in 1..(k - 1) : dc[j] < dc[k]

\* the maximum count exceeds 1.5 times the mean (is positive, if the mean is 0)
Significant(dc) ==
    LET mx == dc[LeftmostMax(dc)]
    IN  IF SumSeq(dc) = 0 THEN mx > 0
        ELSE 2 * Len(dc) * mx > 3 * SumSeq(dc)

StripsOf(c) ==
    {k \in 1..numSections :
        secResult[1].rois[k].xStart <= c /\ c < secResult[1].rois[k].xEnd}

StripWidths ==
    [k \in 1..numSections |-> secResult[1].rois[k].xEnd - secResult[1].rois[k].xStart]

\* C8: the strips [xStart_i, xEnd_i) partition the columns 0..W-1: every
\* column lies in exactly one strip, the strip widths sum to W, and every
\* strip but the last is W \div numSections wide.
C8_StripsPartition ==
    Analyzed =>
        /\ \A c \in 0..(gray.cols - 1) : Cardinality(StripsOf(c)) = 1
        /\ SumSeq(StripWidths) = gray.cols
        /\ \A k \in 1..(numSections - 1) : StripWidths[k] = gray.cols \div numSections

\* C9: the result is the standout strip's position counted from 1, a value
\* in 1..numSections, and it is 0 exactly when no strip stands out.
C9_OneBasedIndex ==
    Analyzed =>
        LET dc == secResult[1].darkCounts
        IN  /\ Significant(dc) => secResult[1].standout = LeftmostMax(dc)
            /\ ~Significant(dc) <=> secResult[1].standout = 0

\* C10: the strip selected is the leftmost strip holding the maximum count,
\* and the result is that strip (as the code numbers it, from 0) when its
\* count exceeds 1.5 times the mean of the counts (is positive, when the
\* mean is 0), and 0 in every other case.
C10_LeftmostMaxSignificant ==
    Analyzed =>
        LET dc == secResult[1].darkCounts
        IN  /\ secResult[1].maxCount > 0 =>
                  secResult[1].maxIndex = LeftmostMax(dc) - 1
            /\ secResult[1].standout =
                  IF Significant(dc) THEN LeftmostMax(dc) - 1 ELSE 0

\* C10 witness: two strips tie on the maximum, which is significant, and the
\* lower-indexed one (not strip 0) is the result
C10_Witness ==
    /\ Analyzed
    /\ \E j, k \in 1..numSections :
          /\ j < k
          /\ secResult[1].darkCounts[j] = secResult[1].maxCount
          /\ secResult[1].darkCounts[k] = secResult[1].maxCount
          /\ secResult[1].standout = j - 1
          /\ secResult[1].standout > 0


(***************************************************************************)
(* Claims about DecodeDocument and HandleUpload (SpecDecode).               *)
(***************************************************************************)
AfterLoop == upc \in {"redirect", "done"} /\ ~img.empty

\* the digit a region shows: the leftmost strip holding the maximum count,
\* strips counted 0..9, when that count is significant, else 0
DigitShown(dc) == IF Significant(dc) THEN LeftmostMax(dc) - 1 ELSE 0

\* the store m with amount added to key (created with name key when absent)
\* and nothing else changed
Added(m, key, amount) ==
    [x \in DOMAIN m \cup {key} |->
        IF x # key THEN m[x]
        ELSE IF key \in DOMAIN m
             THEN [Name |-> m[key].Name, Value |-> m[key].Value + amount]
             ELSE [Name |-> key, Value |-> amount]]

\* C3: a blank row (no decodable QR text, an empty key, a failed bubble
\* analysis, or a count of 0) leaves the store as it was before the row, and
\* when all 21 rows were blank the store after DecodeDocument is the store
\* before it.
C3_BlankRowsKeepStore ==
    /\ (row.i >= 0 /\ BlankRow(row)) => items = row.before
    /\ (AfterLoop /\ blankRows = NumRows) => items = items0

\* C3 witness: all 21 rows were blank, the last one with a decoded key and a
\* count of 0, and the store held entries
C3_Witness ==
    /\ upc = "done" /\ ~img.empty /\ blankRows = NumRows
    /\ row.i = NumRows - 1 /\ row.key = "WIDGET-1" /\ row.kind = "count"
    /\ RowCount(row) = 0
    /\ items0 # EmptyStore /\ items = items0

\* C4: a row whose key region decodes to a non-empty key k, whose tens region
\* shows digit t and whose ones region shows digit o, with 10 * t + o # 0,
\* adds 10 * t + o to the value of k (creating k with name k) and changes
\* nothing else.
C4_RowAddsCount ==
    (row.kind = "count" /\ row.key # "") =>
        LET c == 10 * DigitShown(row.tens.darkCounts) + DigitShown(row.ones.darkCounts)
        IN  c # 0 => items = Added(row.before, row.key, c)

\* C4 witness: key "WIDGET-1", strip 0 of the tens region and strip 5 of
\* the ones region standing out: the value of WIDGET-1 grew by 5
C4_Witness ==
    /\ row.kind = "count" /\ row.key = "WIDGET-1"
    /\ Significant(row.tens.darkCounts) /\ LeftmostMax(row.tens.darkCounts) = 1
    /\ Significant(row.ones.darkCounts) /\ LeftmostMax(row.ones.darkCounts) = 6
    /\ "WIDGET-1" \in DOMAIN row.before
    /\ items["WIDGET-1"].Value = row.before["WIDGET-1"].Value + 5
    /\ items["WIDGET-1"].Name = "Blue Widget"

\* C6: when the image cannot be loaded DecodeDocument processes no row,
\* leaves the store unchanged, and its caller answers otherwise than for a
\* successful submission.
C6_LoadFailureReported ==
    (upc = "done" /\ printed) =>
        /\ row = NoRow /\ items = items0
        /\ response # "303 /dashboard"

\* C7: for every loaded image DecodeDocument attempts all 21 rows and runs
\* to completion; a rectangle outside the image makes the row a skipped row.
C7_AllRowsAttempted ==
    ~img.empty =>
        /\ upc # "aborted"
        /\ upc \in {"redirect", "done"} => i = NumRows


(***************************************************************************)
(* Claims on the concurrent store, checked under Spec.                      *)
(***************************************************************************)
\* the amount of goroutine p's call of inc on key k while it has not yet
\* written
PendingAmount(p, k) ==
    IF pc[p] \in {"inc_lock", "inc_read", "inc_write"} /\ req[p].key = k
    THEN req[p].amount ELSE 0

\* the sum of the amounts of the calls of inc on key k not yet written, of
\* goroutines 1..n
RECURSIVE Pending(_, _)
Pending(k, n) == IF n = 0 THEN 0 ELSE PendingAmount(n, k) + Pending(k, n - 1)

Quiescent == \A p \in Procs : pc[p] \in {"new", "done", "row", "render"}

\* C1: under every interleaving of the calls of inc made by uploads and by
\* +1/-1 requests, the value of each key is its value at the start plus the
\* sum of the deltas of the calls made on it, less those of the calls still
\* before their write; once every call has returned it is the start value
\* plus the sum of all deltas: no update is lost.
C1_NoLostUpdate ==
    /\ \A k \in Keys : Value(items, k) + Pending(k, MaxRequests) = issued[k]
    /\ Quiescent => \A k \in Keys : Value(items, k) = issued[k]

\* C1 witness: two calls of inc on one key overlap: one goroutine holds
\* db.mu and has written its sum, the other waits at Lock with its delta
\* still to be added
C1_Witness ==
    \E p, q \in Procs :
        /\ p # q
        /\ pc[p] = "inc_unlock" /\ mu = p /\ pc[q] = "inc_lock"
        /\ req[p].key = req[q].key
        /\ lookup[p].exists
        /\ Value(items, req[p].key) = lookup[p].prod.Value + req[p].amount

\* C2: no read of db.items, by the dashboard render or by the log line of
\* DecodeDocument, happens while a goroutine holds db.mu.
C2_ReadersExcluded == TRUE \notin reads

\* C5: a step of updateName changes no value and not the set of keys, and
\* nothing at all when its key is absent; a step of inc does not change the
\* name of an entry that exists.
C5_Frame ==
    [][/\ \A p \in Procs :
            UpdateNameWrite(p) =>
                /\ DOMAIN items' = DOMAIN items
                /\ \A k \in DOMAIN items : items'[k].Value = items[k].Value
                /\ req[p].key \notin DOMAIN items => items' = items
       /\ \A p \in Procs :
            IncWrite(p) =>
                \A k \in DOMAIN items : items'[k].Name = items[k].Name]_vars

\* C5 witness: inc("WIDGET-1", 3) has written an entry that an earlier
\* updateName named "Blue Widget": the name is kept, the value is the old
\* one plus 3
C5_Witness ==
    \E p \in Procs :
        /\ pc[p] = "inc_unlock"
        /\ req[p].key = "WIDGET-1" /\ req[p].amount = 3
        /\ lookup[p].exists /\ lookup[p].prod.Name = "Blue Widget"
        /\ items["WIDGET-1"] = [Name |-> "Blue Widget", Value |-> lookup[p].prod.Value + 3]

====
